---- MODULE Spec2Model ----
(***************************************************************************)
(* Model of the validators of src/trezor/validators.js and of the library  *)
(* facade (index.js).  JavaScript values are records tagged by `t`;        *)
(* strings are sequences of one-character strings; numbers are decimal     *)
(* digit sequences, so that Number.MAX_SAFE_INTEGER is exact.              *)
(***************************************************************************)
EXTENDS Integers, Sequences, FiniteSets

VARIABLES called, input, outcome, ENV, colonyWallet

vars == <<called, input, outcome, ENV, colonyWallet>>

(* ------------------------------ bounds --------------------------------- *)
\* how far around a length threshold (40, 42, 1024) the inputs range
LenSlack == 2
\* how far around Number.MAX_SAFE_INTEGER the numeric inputs range
NumSlack == 3
\* largest length of the Array inputs (arrays of holes)
MaxArrayLen == 2
\* largest account / change / index number of the derivation-path inputs
MaxIndex == 2

(* ------------------------- JavaScript values --------------------------- *)
Undefined == [t |-> "undefined"]
Null == [t |-> "null"]
Bool(b) == [t |-> "boolean", b |-> b]
Str(s) == [t |-> "string", s |-> s]
\* a plain object literal {}
Obj == [t |-> "object"]
\* new Array(n): n holes
Arr(n) == [t |-> "array", len |-> n]
\* a number: NaN, +-Infinity, or (-1)^neg * (digits [+ 0.5 when frac])
Num(cls, neg, digits, frac) ==
  [t |-> "number", cls |-> cls, neg |-> neg, digits |-> digits, frac |-> frac]
NaN == Num("nan", FALSE, <<>>, FALSE)

RECURSIVE NatDigits(_)
NatDigits(n) == IF n < 10 THEN <<n>> ELSE Append(NatDigits(n \div 10), n % 10)
\* the number primitive of a small natural
Nat2Num(n) == Num("finite", FALSE, NatDigits(n), FALSE)

RECURSIVE StripZeros(_)
StripZeros(ds) ==
  IF Len(ds) > 1 /\ Head(ds) = 0 THEN StripZeros(Tail(ds)) ELSE ds

\* -1, 0, 1: order of two canonical digit sequences
RECURSIVE CmpSameLen(_, _)
CmpSameLen(a, b) ==
  IF a = <<>> THEN 0
  ELSE IF Head(a) < Head(b) THEN -1
  ELSE IF Head(a) > Head(b) THEN 1
  ELSE CmpSameLen(Tail(a), Tail(b))
CmpDigits(a, b) ==
  IF Len(a) < Len(b) THEN -1
  ELSE IF Len(a) > Len(b) THEN 1
  ELSE CmpSameLen(a, b)

IsZero(n) == n.cls = "finite" /\ n.digits = <<0>> /\ ~n.frac

(* ------------------------------ strings -------------------------------- *)
Repeat(c, n) == [i \in 1..n |-> c]
DigitChars == <<"0", "1", "2", "3", "4", "5", "6", "7", "8", "9">>
IsDigitChar(c) == \E i \in 1..10 : DigitChars[i] = c
DigitVal(c) == (CHOOSE i \in 1..10 : DigitChars[i] = c) - 1
DigitsToChars(ds) == [i \in 1..Len(ds) |-> DigitChars[ds[i] + 1]]
IsWhiteSpace(c) == c = " "

\* ToString of a value, as a template literal `${v}` converts it
ToString(v) ==
  CASE v.t = "string" -> v.s
    [] v.t = "undefined" -> <<"u", "n", "d", "e", "f", "i", "n", "e", "d">>
    [] v.t = "null" -> <<"n", "u", "l", "l">>
    [] v.t = "boolean" ->
         IF v.b THEN <<"t", "r", "u", "e">> ELSE <<"f", "a", "l", "s", "e">>
    [] v.t = "object" ->
         <<"[", "o", "b", "j", "e", "c", "t", " ", "O", "b", "j", "e", "c", "t", "]">>
    [] v.t = "array" -> IF v.len = 0 THEN <<>> ELSE Repeat(",", v.len - 1)
    [] v.t = "number" ->
         CASE v.cls = "nan" -> <<"N", "a", "N">>
           [] v.cls = "inf" ->
                (IF v.neg THEN <<"-">> ELSE <<>>)
                  \o <<"I", "n", "f", "i", "n", "i", "t", "y">>
           [] OTHER ->
                (IF v.neg /\ ~IsZero(v) THEN <<"-">> ELSE <<>>)
                  \o DigitsToChars(v.digits)
                  \o (IF v.frac THEN <<".", "5">> ELSE <<>>)

\* ToBoolean, as `||` applies it
Truthy(v) ==
  CASE v.t = "undefined" -> FALSE
    [] v.t = "null" -> FALSE
    [] v.t = "boolean" -> v.b
    [] v.t = "string" -> v.s # <<>>
    [] v.t = "number" -> ~(v.cls = "nan" \/ IsZero(v))
    [] OTHER -> TRUE

typeof(v) ==
  CASE v.t \in {"undefined", "boolean", "string", "number"} -> v.t
    [] OTHER -> "object"

\* String.prototype.split(separator), separator a non-empty string
RECURSIVE SplitFrom(_, _, _, _)
SplitFrom(s, d, start, i) ==
  IF i + Len(d) - 1 > Len(s) THEN <<SubSeq(s, start, Len(s))>>
  ELSE IF SubSeq(s, i, i + Len(d) - 1) = d
       THEN <<SubSeq(s, start, i - 1)>> \o SplitFrom(s, d, i + Len(d), i + Len(d))
       ELSE SplitFrom(s, d, start, i + 1)
split(s, d) == SplitFrom(s, d, 1, 1)

\* array[i] with JavaScript's 0-based index: undefined when out of range
At(arr, i) == IF i + 1 <= Len(arr) THEN Str(arr[i + 1]) ELSE Undefined

RECURSIVE SkipWhiteSpace(_)
SkipWhiteSpace(s) ==
  IF s # <<>> /\ IsWhiteSpace(Head(s)) THEN SkipWhiteSpace(Tail(s)) ELSE s
RECURSIVE DigitPrefix(_)
DigitPrefix(s) ==
  IF s # <<>> /\ IsDigitChar(Head(s))
  THEN <<DigitVal(Head(s))>> \o DigitPrefix(Tail(s))
  ELSE <<>>

\* parseInt(v, 10): leading white space, an optional sign, then the longest
\* prefix of decimal digits; whatever follows is ignored
parseInt(v) ==
  LET s == SkipWhiteSpace(ToString(v))
      signed == s # <<>> /\ Head(s) \in {"+", "-"}
      ds == DigitPrefix(IF signed THEN Tail(s) ELSE s)
  IN IF ds = <<>> THEN NaN
     ELSE Num("finite", signed /\ Head(s) = "-", StripZeros(ds), FALSE)

\* a === b
StrictEquals(a, b) ==
  IF a.t # b.t THEN FALSE
  ELSE IF a.t = "number"
       THEN /\ a.cls # "nan"
            /\ b.cls # "nan"
            /\ \/ IsZero(a) /\ IsZero(b)
               \/ a = b
       \* two object literals are never the same reference
       ELSE IF a.t \in {"object", "array"} THEN FALSE ELSE a = b

LowerCase == <<"a", "b", "c", "d", "e", "f", "g", "h", "i", "j", "k", "l", "m",
               "n", "o", "p", "q", "r", "s", "t", "u", "v", "w", "x", "y", "z">>
UpperCase == <<"A", "B", "C", "D", "E", "F", "G", "H", "I", "J", "K", "L", "M",
               "N", "O", "P", "Q", "R", "S", "T", "U", "V", "W", "X", "Y", "Z">>
\* String.prototype.toLowerCase
toLowerCase(s) ==
  [i \in 1..Len(s) |->
     IF \E k \in 1..26 : UpperCase[k] = s[i]
     THEN LowerCase[CHOOSE k \in 1..26 : UpperCase[k] = s[i]]
     ELSE s[i]]

(* ------------------------------ numbers -------------------------------- *)
\* Number.MAX_SAFE_INTEGER = 2^53 - 1 = 9007199254740991
MAX_SAFE_INTEGER == <<9, 0, 0, 7, 1, 9, 9, 2, 5, 4, 7, 4, 0, 9, 9, 1>>

\* ToNumber of a string holding an optionally signed decimal integer
\* (white space trimmed, the empty string is 0, anything else is NaN)
StringToNumber(s) ==
  LET u == SkipWhiteSpace(s)
      signed == u # <<>> /\ Head(u) \in {"+", "-"}
      body == IF signed THEN Tail(u) ELSE u
      ds == DigitPrefix(body)
  IN IF u = <<>> THEN Nat2Num(0)
     ELSE IF ds = <<>> \/ Len(ds) # Len(body) THEN NaN
     ELSE Num("finite", signed /\ Head(u) = "-", StripZeros(ds), FALSE)

\* ToNumber, as the relational operators apply it
ToNumber(v) ==
  CASE v.t = "number" -> v
    [] v.t = "undefined" -> NaN
    [] v.t = "null" -> Nat2Num(0)
    [] v.t = "boolean" -> IF v.b THEN Nat2Num(1) ELSE Nat2Num(0)
    [] OTHER -> StringToNumber(ToString(v))

Sgn(n) == IF IsZero(n) THEN 0 ELSE IF n.neg THEN -1 ELSE 1
MagCmp(a, b) ==
  IF a.cls = "inf" /\ b.cls = "inf" THEN 0
  ELSE IF a.cls = "inf" THEN 1
  ELSE IF b.cls = "inf" THEN -1
  ELSE LET c == CmpDigits(a.digits, b.digits)
       IN IF c # 0 THEN c
          ELSE IF a.frac = b.frac THEN 0 ELSE IF a.frac THEN 1 ELSE -1
\* a <= b on values: false as soon as one side converts to NaN
LessOrEqual(a, b) ==
  LET x == ToNumber(a)
      y == ToNumber(b)
  IN /\ x.cls # "nan"
     /\ y.cls # "nan"
     /\ IF Sgn(x) # Sgn(y) THEN Sgn(x) < Sgn(y)
        ELSE Sgn(x) = 0 \/ Sgn(x) * MagCmp(x, y) <= 0
\* a >= b
GreaterOrEqual(a, b) == LessOrEqual(b, a)

\* Number.isSafeInteger(v)
isSafeIntegerOffByOne(v) ==
  /\ v.t = "number"
  /\ v.cls = "finite"
  /\ ~v.frac
  /\ CmpDigits(v.digits, MAX_SAFE_INTEGER) < 0
isSafeInteger(v) ==
  /\ v.t = "number"
  /\ v.cls = "finite"
  /\ ~v.frac
  /\ CmpDigits(v.digits, MAX_SAFE_INTEGER) <= 0

(* ---------------------- property access, methods ----------------------- *)
\* the completion of evaluating an expression: a boolean, or a thrown
\* TypeError
Normal(b) == [threw |-> FALSE, val |-> b]
Abrupt == [threw |-> TRUE, val |-> FALSE]

\* reading a property of undefined or null throws a TypeError
CanReadProperty(v) == v.t \notin {"undefined", "null"}
\* v.length, for a value whose properties can be read
Length(v) ==
  CASE v.t = "string" -> Nat2Num(Len(v.s))
    [] v.t = "array" -> Nat2Num(v.len)
    [] OTHER -> Undefined
\* v.split and v.match are functions only on strings; calling them on any
\* other value throws a TypeError
HasStringMethods(v) == v.t = "string"

(* ----------------------- defaults and messages ------------------------- *)
\* PATH, SPLITTER, MATCH and UNDEFINED of ./defaults.  The delimiter cuts
\* m/44'/60'/0'/0 into the four parts m/44, 60, 0, 0; the splitter cuts the
\* header part (m, 44) and the change / index part once more.
COIN_MAINNET == 60
COIN_TESTNET == 1
PURPOSE == 44
HEADER_KEY == <<"m">>
DELIMITER == <<"'", "/">>
SPLITTER == <<"/">>
UNDEFINED == Str(<<"u", "n", "d", "e", "f", "i", "n", "e", "d">>)

IsHexChar(c) ==
  \/ IsDigitChar(c)
  \/ \E k \in 1..6 : LowerCase[k] = c \/ UpperCase[k] = c
Has0x(s) == Len(s) >= 2 /\ s[1] = "0" /\ s[2] = "x"
\* !!s.match(MATCH.DIGITS): one or more decimal digits
MatchDigits(s) == s # <<>> /\ \A i \in 1..Len(s) : IsDigitChar(s[i])
\* !!s.match(MATCH.HEX_STRING): hex digits with an optional 0x prefix
MatchHexString(s) ==
  \/ \A i \in 1..Len(s) : IsHexChar(s[i])
  \/ Has0x(s) /\ \A i \in 3..Len(s) : IsHexChar(s[i])
\* !!s.match(MATCH.ADDRESS): 40 hex digits with an optional 0x prefix
MatchAddress(s) ==
  \/ Len(s) = 40 /\ \A i \in 1..Len(s) : IsHexChar(s[i])
  \/ Len(s) = 42 /\ Has0x(s) /\ \A i \in 3..Len(s) : IsHexChar(s[i])

\* a || b
OrElse(a, b) == IF Truthy(a) THEN a ELSE b

\* objectToErrorString of ../utils: a serialisation of the value, empty
\* when there is none
objectToErrorString(v) ==
  CASE v.t = "undefined" -> <<>>
    [] v.t = "string" -> <<"\"">> \o v.s \o <<"\"">>
    [] v.t = "object" -> <<"{", "}">>
    [] v.t = "array" ->
         <<"[">> \o (IF v.len = 0 THEN <<>>
                     ELSE Tail([i \in 1..(5 * v.len) |->
                                 <<",", "n", "u", "l", "l">>[((i - 1) % 5) + 1]]))
           \o <<"]">>
    [] OTHER -> ToString(v)

(* ------------------------------ outcomes ------------------------------- *)
\* the validator returned true
ReturnTrue ==
  [type |-> "return", category |-> "", message |-> <<>>, generic |-> <<>>]
\* throw new Error(...): the message's category (the key of ./messages),
\* its text after the category, and the generic context appended to it
Error(category, message, generic) ==
  [type |-> "Error", category |-> category, message |-> message,
   generic |-> generic]
\* no validator is running
NoOutcome ==
  [type |-> "none", category |-> "", message |-> <<>>, generic |-> <<>>]
\* a TypeError raised by the engine itself
TypeError ==
  [type |-> "TypeError", category |-> "", message |-> <<>>, generic |-> <<>>]

\* Array.prototype.join of message fragments
RECURSIVE join(_)
join(fragments) ==
  IF fragments = <<>> THEN <<>>
  ELSE IF Len(fragments) = 1 THEN fragments[1]
  ELSE fragments[1] \o <<" ">> \o join(Tail(fragments))

\* a validation rule: its expression (already evaluated), the category of
\* its message and the fragments that follow the category
Rule(expression, category, fragments) ==
  [expression |-> expression, category |-> category, fragments |-> fragments]

\* assertTruth of ../utils: true, or throws the rule's message
assertTruth(rule) ==
  IF rule.expression THEN ReturnTrue
  ELSE Error(rule.category, join(rule.fragments), <<>>)

\* validatorGenerator of ../utils: the first rule whose expression is false
\* throws its message; true when all pass; the generic error when the
\* sequence is empty
validatorGenerator(validationSequence, genericError) ==
  IF validationSequence = <<>> THEN Error(genericError.category, genericError.text, <<>>)
  ELSE IF \A i \in 1..Len(validationSequence) : validationSequence[i].expression
       THEN ReturnTrue
       ELSE LET first == CHOOSE i \in 1..Len(validationSequence) :
                           /\ ~validationSequence[i].expression
                           /\ \A j \in 1..(i - 1) : validationSequence[j].expression
            IN Error(validationSequence[first].category,
                     join(validationSequence[first].fragments),
                     genericError.text)

\* an array literal of rules evaluates every expression, in order, before
\* the array exists: the first TypeError raised by one leaves the validator
LiteralThrows(rules) == \E i \in 1..Len(rules) : rules[i].expression.threw
Evaluated(rules) ==
  [i \in 1..Len(rules) |->
     Rule(rules[i].expression.val, rules[i].category, rules[i].fragments)]
Generic(category, text) == [category |-> category, text |-> text]

(* ----------------------- derivationPathValidator ----------------------- *)
\* the catch block: the low-level error is replaced by the categorized one
caughtErrorRethrown(derivationPath) == TypeError
caughtError(derivationPath) ==
  Error("derivationPath.notString",
        ToString(OrElse(derivationPath, UNDEFINED)), <<>>)

isCoinTypeMainnetOnly(coinType) == StrictEquals(coinType, Nat2Num(COIN_MAINNET))
isCoinType(coinType) ==
  \/ StrictEquals(coinType, Nat2Num(COIN_MAINNET))
  \/ StrictEquals(coinType, Nat2Num(COIN_TESTNET))

\* the rule for the change / index part alone
changeIndexDigits(part) ==
  LET subs == split(part, SPLITTER)
  IN \A i \in 1..Len(subs) : MatchDigits(subs[i])

derivationPathSequenceSwapped(parts, coinType) ==
  LET named(i) == <<ToString(OrElse(At(parts, i), UNDEFINED))>>
      head == split(parts[1], SPLITTER)
  IN << Rule(Normal(toLowerCase(head[1]) = HEADER_KEY),
             "derivationPath.notValidHeaderKey", named(0)),
        Rule(Normal(StrictEquals(parseInt(At(head, 1)), Nat2Num(PURPOSE))),
             "derivationPath.notValidPurpouse", named(0)),
        Rule(Normal(isCoinType(coinType)),
             "derivationPath.notValidCoin", named(1)),
        Rule(Normal(MatchDigits(parts[3])),
             "derivationPath.notValidAccount", named(2)),
        Rule(Normal(Len(split(parts[4], SPLITTER)) <= 2),
             "derivationPath.notValidAccountIndex", named(3)),
        Rule(Normal(changeIndexDigits(parts[4])),
             "derivationPath.notValidChangeIndex", named(3)) >>
\* const validationSequence = [ ... ], for a path of four parts
derivationPathSequence(parts, coinType) ==
  LET named(i) == <<ToString(OrElse(At(parts, i), UNDEFINED))>>
      head == split(parts[1], SPLITTER)
  IN << Rule(Normal(toLowerCase(head[1]) = HEADER_KEY),
             "derivationPath.notValidHeaderKey", named(0)),
        Rule(Normal(StrictEquals(parseInt(At(head, 1)), Nat2Num(PURPOSE))),
             "derivationPath.notValidPurpouse", named(0)),
        Rule(Normal(isCoinType(coinType)),
             "derivationPath.notValidCoin", named(1)),
        Rule(Normal(MatchDigits(parts[3])),
             "derivationPath.notValidAccount", named(2)),
        Rule(Normal(changeIndexDigits(parts[4])),
             "derivationPath.notValidChangeIndex", named(3)),
        Rule(Normal(Len(split(parts[4], SPLITTER)) <= 2),
             "derivationPath.notValidAccountIndex", named(3)) >>

derivationPathValidator(derivationPath) ==
  IF ~HasStringMethods(derivationPath) THEN caughtError(derivationPath)
  ELSE
    LET deSerializedDerivationPath == split(derivationPath.s, DELIMITER)
        coinType == parseInt(At(deSerializedDerivationPath, 1))
        asserted ==
          assertTruth(Rule(Len(deSerializedDerivationPath) = 4,
                           "derivationPath.notValidParts",
                           <<<<"[">>>> \o deSerializedDerivationPath \o <<<<"]">>>>))
        validationSequence ==
          derivationPathSequence(deSerializedDerivationPath, coinType)
    IN IF asserted # ReturnTrue THEN asserted
       ELSE IF LiteralThrows(validationSequence) THEN TypeError
       ELSE validatorGenerator(
              Evaluated(validationSequence),
              Generic("derivationPath.genericError",
                      ToString(OrElse(derivationPath, UNDEFINED))))

(* ------------------------- safeIntegerValidator ------------------------ *)
safeIntegerSequence(integer) ==
  << Rule(Normal(typeof(integer) = "number"),
          "safeInteger.notNumber", <<ToString(integer)>>),
     Rule(Normal(GreaterOrEqual(integer, Nat2Num(0))),
          "safeInteger.notPositive", <<ToString(integer)>>),
     Rule(Normal(isSafeInteger(integer)),
          "safeInteger.notSafe", <<ToString(integer)>>) >>

safeIntegerValidator(integer) ==
  LET validationSequence == safeIntegerSequence(integer)
  IN IF LiteralThrows(validationSequence) THEN TypeError
     ELSE validatorGenerator(
            Evaluated(validationSequence),
            Generic("safeInteger.genericError", ToString(integer)))

(* --------------------------- addressValidator -------------------------- *)
addressSequencePatternFirst(address) ==
  << Rule(Normal(typeof(address) = "string"),
          "address.notStringSequence",
          <<ToString(OrElse(Str(objectToErrorString(address)), UNDEFINED))>>),
     Rule(IF HasStringMethods(address)
          THEN Normal(MatchAddress(address.s))
          ELSE Abrupt,
          "address.notFormat", <<ToString(OrElse(address, UNDEFINED))>>),
     Rule(IF CanReadProperty(address)
          THEN Normal(\/ StrictEquals(Length(address), Nat2Num(40))
                      \/ StrictEquals(Length(address), Nat2Num(42)))
          ELSE Abrupt,
          "address.notLength", <<ToString(OrElse(address, UNDEFINED))>>) >>
addressSequence(address) ==
  << Rule(Normal(typeof(address) = "string"),
          "address.notStringSequence",
          <<ToString(OrElse(Str(objectToErrorString(address)), UNDEFINED))>>),
     Rule(IF CanReadProperty(address)
          THEN Normal(\/ StrictEquals(Length(address), Nat2Num(40))
                      \/ StrictEquals(Length(address), Nat2Num(42)))
          ELSE Abrupt,
          "address.notLength", <<ToString(OrElse(address, UNDEFINED))>>),
     Rule(IF HasStringMethods(address)
          THEN Normal(MatchAddress(address.s))
          ELSE Abrupt,
          "address.notFormat", <<ToString(OrElse(address, UNDEFINED))>>) >>

addressValidator(address) ==
  LET validationSequence == addressSequence(address)
  IN IF LiteralThrows(validationSequence) THEN TypeError
     ELSE validatorGenerator(
            Evaluated(validationSequence),
            Generic("address.genericError",
                    ToString(OrElse(address, UNDEFINED))))

(* ------------------------- hexSequenceValidator ------------------------ *)
hexSequenceSequence(hexSequence) ==
  << Rule(Normal(typeof(hexSequence) = "string"),
          "hexSequence.notStringSequence",
          <<ToString(OrElse(Str(objectToErrorString(hexSequence)), UNDEFINED))>>),
     Rule(IF HasStringMethods(hexSequence)
          THEN Normal(MatchHexString(hexSequence.s))
          ELSE Abrupt,
          "hexSequence.notFormat",
          <<ToString(OrElse(hexSequence, UNDEFINED))>>),
     Rule(IF CanReadProperty(hexSequence)
          THEN Normal(LessOrEqual(Length(hexSequence), Nat2Num(1024)))
          ELSE Abrupt,
          "hexSequence.tooBig",
          <<ToString(OrElse(hexSequence, UNDEFINED))>>) >>

hexSequenceValidator(hexSequence) ==
  LET validationSequence == hexSequenceSequence(hexSequence)
  IN IF LiteralThrows(validationSequence) THEN TypeError
     ELSE validatorGenerator(
            Evaluated(validationSequence),
            Generic("hexSequence.genericError",
                    ToString(OrElse(hexSequence, UNDEFINED))))

(* --------------------------- messageValidator -------------------------- *)
messageSequenceStrict(string) ==
  << Rule(Normal(typeof(string) = "string"),
          "message.notString",
          <<ToString(OrElse(Str(objectToErrorString(string)), UNDEFINED))>>),
     Rule(IF CanReadProperty(string)
          THEN Normal(/\ LessOrEqual(Length(string), Nat2Num(1024))
                      /\ ~StrictEquals(Length(string), Nat2Num(1024)))
          ELSE Abrupt,
          "message.tooBig", <<ToString(OrElse(string, UNDEFINED))>>) >>
messageSequence(string) ==
  << Rule(Normal(typeof(string) = "string"),
          "message.notString",
          <<ToString(OrElse(Str(objectToErrorString(string)), UNDEFINED))>>),
     Rule(IF CanReadProperty(string)
          THEN Normal(LessOrEqual(Length(string), Nat2Num(1024)))
          ELSE Abrupt,
          "message.tooBig", <<ToString(OrElse(string, UNDEFINED))>>) >>

messageValidator(string) ==
  LET validationSequence == messageSequence(string)
  IN IF LiteralThrows(validationSequence) THEN TypeError
     ELSE validatorGenerator(
            Evaluated(validationSequence),
            Generic("message.genericError",
                    ToString(OrElse(string, UNDEFINED))))

(* ------------------------------- facade -------------------------------- *)
\* Object.assign({}, a, b): the own members of b are copied over those of a
ObjectAssign(a, b) ==
  [k \in (DOMAIN a) \cup (DOMAIN b) |-> IF k \in DOMAIN b THEN b[k] ELSE a[k]]
\* the members of ./debug
debug == [debug |-> [helpers |-> "debug"]]
\* the empty object literal of the conditional's else branch
EmptyObject == [k \in {} |-> [helpers |-> "none"]]
\* the values ./defaults can give ENV
Environments == {"development", "production", "test", "staging"}

attachDebugUnlessProduction(env) == IF env # "production" THEN debug ELSE EmptyObject
\* ENV === 'development' ? debug : {}
attachDebug(env) == IF env = "development" THEN debug ELSE EmptyObject

libraryExport(env) ==
  ObjectAssign(
    [wallets |-> [software |-> "software", trezor |-> "trezor", ledger |-> "ledger"],
     utils |-> [bigNumber |-> "bigNumber", getRandomValues |-> "getRandomValues"],
     about |-> [name |-> "name", version |-> "version", environment |-> env]],
    attachDebug(env))

(* ------------------------------- inputs -------------------------------- *)
SmallNumbers ==
  { Num("finite", neg, NatDigits(n), frac) :
      neg \in BOOLEAN, n \in 0..NumSlack, frac \in BOOLEAN }
\* the integers around Number.MAX_SAFE_INTEGER, 9007199254740 991 + k, that
\* a double can hold (above 2^53 only the even ones), of either sign
LargeNumbers ==
  { Num("finite", neg,
        <<9, 0, 0, 7, 1, 9, 9, 2, 5, 4, 7, 4, 0>> \o NatDigits(991 + k), FALSE) :
      neg \in BOOLEAN,
      k \in { j \in (0 - NumSlack)..NumSlack : j <= 1 \/ j % 2 = 1 } }
Numbers ==
  SmallNumbers \cup LargeNumbers
    \cup { NaN, Num("inf", FALSE, <<>>, FALSE), Num("inf", TRUE, <<>>, FALSE) }

NonStrings ==
  { Undefined, Null, Bool(TRUE), Bool(FALSE), Obj }
    \cup { Arr(n) : n \in 0..MaxArrayLen }
    \cup Numbers

NumericStrings ==
  { Str(s) : s \in { <<>>, <<"5">>, <<"-", "1">>, <<" ", "7">>, <<"5", "a">>,
                     <<"a">> } }

IndexString(n) == DigitsToChars(NatDigits(n))
Headers ==
  { <<"m", "/", "4", "4">>, <<"M", "/", "4", "4">>, <<"x", "/", "4", "4">>,
    <<"m", "/", "4", "5">>, <<"m", "/", "4", "4", "/", "9">>,
    <<"m", "/", "4", "4", "x">>, <<"m">>, <<>>, <<"/", "4", "4">>,
    <<"m", "m", "/", "4", "4">> }
Coins ==
  { <<"6", "0">>, <<"1">>, <<"9", "9">>, <<"6", "0", "a", "b", "c">>, <<>>,
    <<"0", "6", "0">>, <<"1", "x">>, <<"-", "1">>, <<"a", "6", "0">> }
Accounts ==
  { IndexString(n) : n \in 0..MaxIndex }
    \cup { <<"1", "2">>, <<"a">>, <<>>, <<"1", "a">> }
Changes ==
  { IndexString(n) : n \in 0..MaxIndex }
    \cup { IndexString(n) \o SPLITTER \o IndexString(k) :
             n \in 0..MaxIndex, k \in 0..MaxIndex }
    \cup { <<"0", "/", "1", "/", "2">>, <<"0", "/", "a">>,
           <<"a", "/", "1", "/", "2">>, <<>>, <<"1", "2", "/", "3", "4">>,
           <<"0", "/">>, <<"1", "/", "2", "/", "3", "/", "4">>, <<"a">> }
PathStrings ==
  { h \o DELIMITER \o c \o DELIMITER \o a \o DELIMITER \o x :
      h \in Headers, c \in Coins, a \in Accounts, x \in Changes }
    \cup { h \o DELIMITER \o c \o DELIMITER \o a : h \in Headers, c \in Coins,
                                                   a \in Accounts }
    \cup { h \o DELIMITER \o c \o DELIMITER \o a \o DELIMITER \o a \o DELIMITER \o a :
             h \in Headers, c \in Coins, a \in Accounts }
    \cup { <<>>, <<"m", "/", "4", "4", "/", "6", "0", "/", "0", "/", "0">> }
PathInputs == { Str(s) : s \in PathStrings } \cup NonStrings

\* `body` with its last character replaced by `c`
WithLast(body, c) ==
  IF body = <<>> THEN body ELSE [body EXCEPT ![Len(body)] = c]
AddressStrings ==
  { prefix \o (IF spoil THEN WithLast(Repeat(c, n), "z") ELSE Repeat(c, n)) :
      prefix \in { <<>>, <<"0", "x">>, <<"0", "X">> },
      c \in { "a", "F", "9", "g" },
      n \in (38 - LenSlack)..(42 + LenSlack),
      spoil \in BOOLEAN }
AddressInputs ==
  { Str(s) : s \in AddressStrings } \cup NonStrings \cup { Arr(40), Arr(42) }

SizedStrings(prefixes, chars) ==
  { prefix \o Repeat(c, n) :
      prefix \in prefixes,
      c \in chars,
      n \in (0..LenSlack) \cup ((1022 - LenSlack)..(1024 + LenSlack)) }
HexInputs ==
  { Str(s) : s \in SizedStrings({ <<>>, <<"0", "x">> }, { "f", "A", "0", "g" }) }
    \cup NonStrings
MessageInputs ==
  { Str(s) : s \in SizedStrings({ <<>>, <<"0", "x">> }, { "h", "f", " " }) }
    \cup NonStrings
SafeIntegerInputs ==
  Numbers \cup NumericStrings \cup (NonStrings \ Numbers)

(* --------------------------- the state machine ------------------------- *)
\* the module is loaded: the facade is built once, no validator was called
Init ==
  /\ ENV \in Environments
  /\ colonyWallet = libraryExport(ENV)
  /\ called = "none"
  /\ input = Undefined
  /\ outcome = NoOutcome

\* a caller invokes one validator at a time and waits for its outcome
CallDerivationPathValidator ==
  /\ called = "none"
  /\ \E v \in PathInputs :
       /\ input' = v
       /\ outcome' = derivationPathValidator(v)
  /\ called' = "derivationPathValidator"
  /\ UNCHANGED <<ENV, colonyWallet>>
CallSafeIntegerValidator ==
  /\ called = "none"
  /\ \E v \in SafeIntegerInputs :
       /\ input' = v
       /\ outcome' = safeIntegerValidator(v)
  /\ called' = "safeIntegerValidator"
  /\ UNCHANGED <<ENV, colonyWallet>>
CallAddressValidator ==
  /\ called = "none"
  /\ \E v \in AddressInputs :
       /\ input' = v
       /\ outcome' = addressValidator(v)
  /\ called' = "addressValidator"
  /\ UNCHANGED <<ENV, colonyWallet>>
CallHexSequenceValidator ==
  /\ called = "none"
  /\ \E v \in HexInputs :
       /\ input' = v
       /\ outcome' = hexSequenceValidator(v)
  /\ called' = "hexSequenceValidator"
  /\ UNCHANGED <<ENV, colonyWallet>>
CallMessageValidator ==
  /\ called = "none"
  /\ \E v \in MessageInputs :
       /\ input' = v
       /\ outcome' = messageValidator(v)
  /\ called' = "messageValidator"
  /\ UNCHANGED <<ENV, colonyWallet>>

\* the outcome reaches the caller; the validators keep nothing between calls
Finish ==
  /\ called # "none"
  /\ called' = "none"
  /\ input' = Undefined
  /\ outcome' = NoOutcome
  /\ UNCHANGED <<ENV, colonyWallet>>

Next ==
  \/ Finish
  \/ CallDerivationPathValidator
  \/ CallSafeIntegerValidator
  \/ CallAddressValidator
  \/ CallHexSequenceValidator
  \/ CallMessageValidator

Spec == Init /\ [][Next]_vars

(* =============================== claims ================================ *)
AllDigitChars(s) == s # <<>> /\ \A i \in 1..Len(s) : IsDigitChar(s[i])
AllHexChars(s) == \A i \in 1..Len(s) : IsHexChar(s[i])
NotStringCategory ==
  [addressValidator |-> "address.notStringSequence",
   hexSequenceValidator |-> "hexSequence.notStringSequence",
   messageValidator |-> "message.notString"]

\* C1: for every non-string input, addressValidator, hexSequenceValidator
\* and messageValidator fail with their own not-a-string error; no
\* low-level error escapes from the later checks.
C1_NonStringFailsAsNotString ==
  (called \in DOMAIN NotStringCategory /\ input.t # "string") =>
    /\ outcome.type = "Error"
    /\ outcome.category = NotStringCategory[called]

\* C2: for every non-string input, derivationPathValidator fails with the
\* not-a-string error, whose message names the input or the undefined
\* placeholder; the low-level error of split / parseInt never reaches the
\* caller and no later check decides the outcome.
C2_NonStringPathFailsAsNotString ==
  (called = "derivationPathValidator" /\ input.t # "string") =>
    /\ outcome.type = "Error"
    /\ outcome.category = "derivationPath.notString"
    /\ outcome.message \in { ToString(input), UNDEFINED.s }
C2_Witness ==
  /\ called = "derivationPathValidator"
  /\ input = Obj
  /\ outcome.category = "derivationPath.notString"
  /\ outcome.message = ToString(Obj)

\* the strings m/44'/C'/A'/X and m/44'/C'/A'/X/Y: header letter m in either
\* case, C one of 60 and 1, and A, X, Y non-empty digit strings
IsChangeIndex(s) ==
  \/ AllDigitChars(s)
  \/ \E j \in 2..(Len(s) - 1) :
       /\ s[j] = "/"
       /\ AllDigitChars(SubSeq(s, 1, j - 1))
       /\ AllDigitChars(SubSeq(s, j + 1, Len(s)))
WellFormedPath(s) ==
  \E h \in { "m", "M" }, c \in { <<"6", "0">>, <<"1">> } :
    LET pre == <<h, "/", "4", "4", "'", "/">> \o c \o <<"'", "/">>
        rest == SubSeq(s, Len(pre) + 1, Len(s))
    IN /\ Len(s) > Len(pre)
       /\ SubSeq(s, 1, Len(pre)) = pre
       /\ \E i \in 2..(Len(rest) - 1) :
            /\ rest[i] = "'"
            /\ rest[i + 1] = "/"
            /\ AllDigitChars(SubSeq(rest, 1, i - 1))
            /\ IsChangeIndex(SubSeq(rest, i + 2, Len(rest)))

\* C3: derivationPathValidator returns true for every string of the form
\* m/44'/C'/A'/X or m/44'/C'/A'/X/Y with C in {60, 1}, the header letter m
\* in either case and A, X, Y non-empty digit strings.
C3_WellFormedPathAccepted ==
  (called = "derivationPathValidator" /\ input.t = "string"
     /\ WellFormedPath(input.s)) =>
    outcome = ReturnTrue
C3_Witness ==
  /\ called = "derivationPathValidator"
  /\ input = Str(<<"M", "/", "4", "4", "'", "/", "1", "'", "/", "2", "'", "/",
                   "1", "/", "2">>)
  /\ outcome = ReturnTrue

\* C4: derivationPathValidator returns true only for paths that satisfy the
\* DerivationPath invariants exactly: a header part other than m followed
\* by the purpose 44, or a coin type other than the numeral 60 or 1, is
\* never accepted.
C4_OnlyExactPathsAccepted ==
  (called = "derivationPathValidator" /\ outcome.type = "return") =>
    (input.t = "string" /\ WellFormedPath(input.s))

\* the six rules, each stated on the four parts of the path
PathCheck(i, parts) ==
  LET head == split(parts[1], SPLITTER)
      subs == split(parts[4], SPLITTER)
  IN CASE i = 1 -> head[1] \in { <<"m">>, <<"M">> }
       [] i = 2 -> Len(head) >= 2 /\ parseInt(Str(head[2])) = Nat2Num(44)
       [] i = 3 -> parseInt(Str(parts[2])) \in { Nat2Num(60), Nat2Num(1) }
       [] i = 4 -> AllDigitChars(parts[3])
       [] i = 5 -> \A k \in 1..Len(subs) : AllDigitChars(subs[k])
       [] i = 6 -> Len(subs) <= 2
PathCategory ==
  << "derivationPath.notValidHeaderKey", "derivationPath.notValidPurpouse",
     "derivationPath.notValidCoin", "derivationPath.notValidAccount",
     "derivationPath.notValidChangeIndex",
     "derivationPath.notValidAccountIndex" >>

IsAddress(s) ==
  \/ Len(s) = 40 /\ AllHexChars(s)
  \/ Len(s) = 42 /\ SubSeq(s, 1, 2) = <<"0", "x">> /\ AllHexChars(SubSeq(s, 3, 42))

\* C7: for every string input, addressValidator checks the length set
\* {40, 42} before the pattern: another length fails with wrong-length
\* whatever the characters, a string of length 40 or 42 that is not 40 hex
\* digits with an optional 0x prefix fails with bad-pattern, and true is
\* returned exactly for 40 hex digits optionally prefixed with 0x.
C7_AddressLengthBeforePattern ==
  (called = "addressValidator" /\ input.t = "string") =>
    IF Len(input.s) \notin { 40, 42 }
    THEN outcome.type = "Error" /\ outcome.category = "address.notLength"
    ELSE IF ~IsAddress(input.s)
    THEN outcome.type = "Error" /\ outcome.category = "address.notFormat"
    ELSE outcome = ReturnTrue
C7_Witness ==
  /\ called = "addressValidator"
  /\ input = Str(Repeat("g", 41))
  /\ outcome.category = "address.notLength"

\* C8: hexSequenceValidator checks the size bound before the hex pattern:
\* every string longer than 1024 characters fails with too-large, whether
\* or not it is valid hex, and a string of at most 1024 characters fails
\* with bad-pattern only when it does not match the hex pattern.
C8_HexSizeBeforePattern ==
  (called = "hexSequenceValidator" /\ input.t = "string") =>
    IF Len(input.s) > 1024
    THEN outcome.type = "Error" /\ outcome.category = "hexSequence.tooBig"
    ELSE outcome.category = "hexSequence.notFormat" =>
           ~(AllHexChars(input.s)
               \/ (/\ Len(input.s) >= 2
                   /\ SubSeq(input.s, 1, 2) = <<"0", "x">>
                   /\ AllHexChars(SubSeq(input.s, 3, Len(input.s)))))

\* C9: messageValidator returns true for every string of length at most
\* 1024, whatever its characters, and fails with too-large for every string
\* of length 1025 or more.
C9_MessageSizeOnly ==
  (called = "messageValidator" /\ input.t = "string") =>
    IF Len(input.s) <= 1024
    THEN outcome = ReturnTrue
    ELSE outcome.type = "Error" /\ outcome.category = "message.tooBig"
C9_Witness ==
  /\ called = "messageValidator"
  /\ input = Str(Repeat("h", 1024))
  /\ outcome = ReturnTrue

\* the facade always holds wallets (exactly software, trezor, ledger),
\* utils and about, and the debug members never replace them
FacadeCore ==
  /\ { "wallets", "utils", "about" } \subseteq DOMAIN colonyWallet
  /\ DOMAIN colonyWallet["wallets"] = { "software", "trezor", "ledger" }
  /\ DOMAIN colonyWallet["utils"] = { "bigNumber", "getRandomValues" }
  /\ colonyWallet["about"]["environment"] = ENV
HasDebugMembers ==
  \A k \in DOMAIN debug : k \in DOMAIN colonyWallet /\ colonyWallet[k] = debug[k]
NoDebugMembers == \A k \in DOMAIN debug : k \notin DOMAIN colonyWallet

\* C10 (as stated): the facade contains the debug helper's members if and
\* only if the environment is not production.
C10_DebugUnlessProduction ==
  /\ FacadeCore
  /\ IF ENV # "production" THEN HasDebugMembers ELSE NoDebugMembers

\* C10 (amended): the facade always contains wallets (exactly software,
\* trezor, ledger), utils and about, and contains the debug helper's
\* members if and only if the environment is 'development'; in production
\* and in every other environment they are absent.
C10_DebugOnlyInDevelopment ==
  /\ FacadeCore
  /\ IF ENV = "development" THEN HasDebugMembers ELSE NoDebugMembers
C10_Witness ==
  /\ ENV = "development"
  /\ HasDebugMembers
  /\ FacadeCore

====
